---- MODULE Spec2Model ----
(***************************************************************************)
(* The reveal slide locator of the Quarto VS Code extension:               *)
(* revealSlideIndex / revealEditorLocation / slideLevelFromYaml.           *)
(*                                                                         *)
(* A call of revealSlideIndex is a small process: it awaits the token      *)
(* stream of the document (engine.parse), scans the tokens one by one      *)
(* (revealEditorLocation), and then walks the emitted items up to the      *)
(* cursor item.  Every local variable of the two functions is a variable   *)
(* of the model, indexed by the call it belongs to.                        *)
(*                                                                         *)
(* The preview page of the same file (lines 1-162) is modelled beside it:  *)
(* its slideIndex, its elements, and the listener of message events, one   *)
(* action per case of its switch.                                          *)
(***************************************************************************)
EXTENDS Integers, Sequences, FiniteSets, TLC

VARIABLES
    pc,                     \* position of each call
    doc,                    \* the document a call was invoked on
    cursorPos,              \* cursorPos.line of a call
    tokens,                 \* const tokens = await engine.parse(doc)
    tokenIndex,             \* position of the for..of loop over tokens
    items,                  \* const items: RevealEditorLocationItem[]
    explicitSlideLevel,     \* let explicitSlideLevel: number | null
    autoSlideLevel,         \* let autoSlideLevel
    pendingAutoSlideLevel,  \* let pendingAutoSlideLevel
    foundCursor,            \* let foundCursor
    returned,               \* value the promise of revealEditorLocation holds
    location,               \* const location = await revealEditorLocation(..)
    itemIndex,              \* position of the for..of loop over location.items
    slideIndex,             \* let slideIndex = -1
    result,                 \* value the promise of revealSlideIndex settles to
    webview,                \* the preview page: its slideIndex and its elements
    received,               \* the events delivered to the listeners of the page
    posted                  \* the messages the page posted to other windows

vars == <<pc, doc, cursorPos, tokens, tokenIndex, items, explicitSlideLevel,
          autoSlideLevel, pendingAutoSlideLevel, foundCursor, returned,
          location, itemIndex, slideIndex, result, webview, received, posted>>

\* the variables of the preview page
page == <<webview, received, posted>>

-----------------------------------------------------------------------------
(* Bounds of the model.                                                     *)

MaxLen == 4         \* longest token stream
MaxLevel == 2       \* deepest heading
MaxYamlLevel == 2   \* largest slide-level written in front matter
MaxSlides == 2      \* longest list of slides in a reveal-init message
MaxMessages == 3    \* most events delivered to the preview page

Calls == {1, 2}

-----------------------------------------------------------------------------
(* JavaScript values that reach `||` or `if` in this code: numbers,         *)
(* booleans, texts, null, undefined and objects.                            *)

Num(n) == [t |-> "number", n |-> n]
Null == [t |-> "null", n |-> 0]
Undefined == [t |-> "undefined", n |-> 0]

True == [t |-> "boolean", n |-> 1]
False == [t |-> "boolean", n |-> 0]

\* a text as a value: its length and its characters
Str(chars) ==
    [t |-> "string", n |-> Len(chars),
     elems |-> [i \in 1..Len(chars) |->
                   [t |-> "string", n |-> 1, elems |-> <<chars[i]>>]]]

Truthy(v) ==
    v.t = "object" \/ (v.t \in {"number", "boolean", "string"} /\ v.n # 0)

\* a || b
Or(a, b) == IF Truthy(a) THEN a ELSE b

\* Math.max(a, b)
MathMax(a, b) == IF a >= b THEN a ELSE b

\* Number.MAX_SAFE_INTEGER is 2^53 - 1.  It is only ever compared with
\* heading levels and assigned; the model holds the largest integer TLC
\* represents in its place.
MAX_SAFE_INTEGER == 2147483647

kTitle == "title"
kHeading == "heading"
kHr == "hr"
kCursor == "cursor"

-----------------------------------------------------------------------------
(* Tokens of the external markdown parser.  token.map is null (here <<>>)   *)
(* or [startLine, endLine]; token.markup is a text, here a sequence of      *)
(* lines (front matter) or of marker characters (heading).                  *)

Token(type, map, markup) == [type |-> type, map |-> map, markup |-> markup]

Range(s) == {s[i] : i \in 1..Len(s)}

\* Lines of front matter the model writes.
TitleLine == "title: Talk"
SlideLevelLine(n) == "slide-level: " \o ToString(n)
RevealjsLine(n) == "format: {revealjs: {slide-level: " \o ToString(n) \o "}}"
MalformedLine == "slide-level: ["

YamlLevels == 0..MaxYamlLevel

FrontMatterMarkups ==
    {<<>>, <<MalformedLine>>, <<TitleLine>>}
      \cup {<<SlideLevelLine(n)>> : n \in YamlLevels}
      \cup {<<RevealjsLine(n)>> : n \in YamlLevels}
      \cup {<<SlideLevelLine(n), RevealjsLine(m)>> : n, m \in YamlLevels}

\* The front-matter decoder: it throws on a malformed block, yields no
\* mapping for an empty block, and otherwise the mapping of the block's keys.
\* Of the mapping the model keeps meta["slide-level"] and
\* meta["format"]?.["revealjs"]?.["slide-level"].
parseFrontMatterStr(str) ==
    [threw |-> MalformedLine \in Range(str),
     isMapping |-> str # <<>>,
     slideLevel |->
        IF \E n \in YamlLevels : SlideLevelLine(n) \in Range(str)
        THEN Num(CHOOSE n \in YamlLevels : SlideLevelLine(n) \in Range(str))
        ELSE Undefined,
     revealjsSlideLevel |->
        IF \E n \in YamlLevels : RevealjsLine(n) \in Range(str)
        THEN Num(CHOOSE n \in YamlLevels : RevealjsLine(n) \in Range(str))
        ELSE Undefined]

\* The level of a heading is the weight of its marker.
getHeaderLevel(markup) == Len(markup)

HeadingMarkup(level) == [i \in 1..level |-> "#"]

\* What a call of slideLevelFromYaml completes with when the decoder's
\* exception is not caught.
Thrown == [t |-> "thrown", n |-> 0]

\* slideLevelFromYaml with the try block laid bare: the decoder's exception
\* leaves the function.
slideLevelFromYamlNoCatch(str) ==
    LET meta == parseFrontMatterStr(str)
    IN  IF meta.threw THEN Thrown
        ELSE IF meta.isMapping
             THEN Or(Or(meta.slideLevel, meta.revealjsSlideLevel), Null)
             ELSE Null

slideLevelFromYaml(str) ==
    LET meta == parseFrontMatterStr(str)
    IN  IF meta.threw THEN Null
        ELSE IF meta.isMapping
             THEN Or(Or(meta.slideLevel, meta.revealjsSlideLevel), Null)
             ELSE Null

simpleItem(type, row) == [type |-> type, level |-> 0, row |-> row]
titleItem(row) == simpleItem(kTitle, row)
cursorItem(row) == simpleItem(kCursor, row)
hrItem(row) == simpleItem(kHr, row)
headingItem(row, level) == [type |-> kHeading, level |-> level, row |-> row]

-----------------------------------------------------------------------------
(* revealEditorLocation, one token at a time.  The locals of the function   *)
(* travel as a record, so that the same steps serve the actions below and   *)
(* the whole-run operators.                                                 *)

\* lines 221-225: the locals as the function declares them
NewLocals ==
    [items |-> <<>>,
     explicitSlideLevel |-> Null,
     autoSlideLevel |-> MAX_SAFE_INTEGER,
     pendingAutoSlideLevel |-> 0,
     foundCursor |-> FALSE]

\* lines 231-234 with the comparison turned round
placeCursorAfter(l, row, line) ==
    IF ~l.foundCursor /\ line > row
    THEN [l EXCEPT !.foundCursor = TRUE,
                   !.items = Append(@, cursorItem(line))]
    ELSE l

\* lines 231-234 with `<=` for `<`
placeCursorAtOrBefore(l, row, line) ==
    IF ~l.foundCursor /\ line <= row
    THEN [l EXCEPT !.foundCursor = TRUE,
                   !.items = Append(@, cursorItem(line))]
    ELSE l

\* lines 231-234 without line 232: the cursor is never marked as found
placeCursorNoFlag(l, row, line) ==
    IF ~l.foundCursor /\ line < row
    THEN [l EXCEPT !.items = Append(@, cursorItem(line))]
    ELSE l

\* lines 231-234: if the cursor is before this token then add the cursor item
placeCursor(l, row, line) ==
    IF ~l.foundCursor /\ line < row
    THEN [l EXCEPT !.foundCursor = TRUE,
                   !.items = Append(@, cursorItem(line))]
    ELSE l

\* lines 235-237
scanFrontMatter(l, token) ==
    [l EXCEPT !.explicitSlideLevel = slideLevelFromYaml(token.markup),
              !.items = Append(@, titleItem(0))]

\* lines 238-240 without the reset of the pending level
scanHrKeepPending(l, row) ==
    [l EXCEPT !.items = Append(@, hrItem(row))]

\* lines 238-240 with the rule committing the pending level the way another
\* token does
scanHrCommitting(l, row) ==
    [l EXCEPT !.items = Append(@, hrItem(row)),
              !.autoSlideLevel = IF l.pendingAutoSlideLevel > 0
                                 THEN l.pendingAutoSlideLevel ELSE @,
              !.pendingAutoSlideLevel = 0]

\* lines 238-240
scanHr(l, row) ==
    [l EXCEPT !.items = Append(@, hrItem(row)),
              !.pendingAutoSlideLevel = 0]

\* lines 241-248, with the else branch committing the pending level
\* instead of dropping it
scanHeadingCommitting(l, token, row) ==
    LET level == getHeaderLevel(token.markup)
    IN  IF level < l.autoSlideLevel
        THEN [l EXCEPT !.items = Append(@, headingItem(row, level)),
                       !.pendingAutoSlideLevel = level]
        ELSE [l EXCEPT !.items = Append(@, headingItem(row, level)),
                       !.autoSlideLevel =
                           IF l.pendingAutoSlideLevel > 0
                           THEN l.pendingAutoSlideLevel ELSE @,
                       !.pendingAutoSlideLevel = 0]

\* lines 241-248 with the heading classified while scanning: a heading
\* within the level accepted so far is pushed as an item that always counts
scanHeadingClassifyEarly(l, token, row) ==
    LET level == getHeaderLevel(token.markup)
    IN  [l EXCEPT !.items = Append(@, headingItem(row,
                                IF level <= l.autoSlideLevel THEN 0 ELSE level)),
                  !.pendingAutoSlideLevel =
                      IF level < l.autoSlideLevel THEN level ELSE 0]

\* lines 241-248 with `<=` for `<` on line 244
scanHeadingAtOrBelow(l, token, row) ==
    LET level == getHeaderLevel(token.markup)
    IN  [l EXCEPT !.items = Append(@, headingItem(row, level)),
                  !.pendingAutoSlideLevel =
                      IF level <= l.autoSlideLevel THEN level ELSE 0]

\* lines 241-248
scanHeading(l, token, row) ==
    LET level == getHeaderLevel(token.markup)
    IN  [l EXCEPT !.items = Append(@, headingItem(row, level)),
                  !.pendingAutoSlideLevel =
                      IF level < l.autoSlideLevel THEN level ELSE 0]

\* lines 249-254 without line 252
scanOtherKeepPending(l) ==
    IF l.pendingAutoSlideLevel > 0
    THEN [l EXCEPT !.autoSlideLevel = l.pendingAutoSlideLevel]
    ELSE l

\* lines 249-254
scanOther(l) ==
    IF l.pendingAutoSlideLevel > 0
    THEN [l EXCEPT !.autoSlideLevel = l.pendingAutoSlideLevel,
                   !.pendingAutoSlideLevel = 0]
    ELSE l

\* lines 227-256 with the test of token.map guarding the cursor only: a
\* token without a map is still handled by its type
scanTokenByTypeOnly(l, token, line) ==
    LET row == IF token.map = <<>> THEN 0 ELSE token.map[1]
        l1 == IF token.map = <<>> THEN l ELSE placeCursor(l, row, line)
    IN  CASE token.type = "front_matter" -> scanFrontMatter(l1, token)
          [] token.type = "hr" -> scanHr(l1, row)
          [] token.type = "heading_open" -> scanHeading(l1, token, row)
          [] OTHER -> scanOther(l1)

\* lines 227-256: the body of the loop for one token
scanToken(l, token, line) ==
    IF token.map = <<>>
    THEN l
    ELSE LET row == token.map[1]
             l1 == placeCursor(l, row, line)
         IN  CASE token.type = "front_matter" -> scanFrontMatter(l1, token)
               [] token.type = "hr" -> scanHr(l1, row)
               [] token.type = "heading_open" -> scanHeading(l1, token, row)
               [] OTHER -> scanOther(l1)

\* lines 258-271 without the last chance to collect the pending level
finishLocalsNoLastChance(l, lineCount) ==
    [l EXCEPT
        !.items = IF ~l.foundCursor
                  THEN Append(@, cursorItem(lineCount - 1))
                  ELSE @,
        !.autoSlideLevel = IF @ = MAX_SAFE_INTEGER THEN 0 ELSE @]

\* lines 258-271 without lines 269-271
finishLocalsNoZero(l, lineCount) ==
    [l EXCEPT
        !.items = IF ~l.foundCursor
                  THEN Append(@, cursorItem(lineCount - 1))
                  ELSE @,
        !.autoSlideLevel = IF l.pendingAutoSlideLevel > 0
                           THEN l.pendingAutoSlideLevel
                           ELSE @]

\* lines 258-271: cursor at end if not found (foundCursor is left as it
\* is), last chance to collect the pending level (which is left pending),
\* no level found
finishLocals(l, lineCount) ==
    LET auto1 == IF l.pendingAutoSlideLevel > 0
                 THEN l.pendingAutoSlideLevel
                 ELSE l.autoSlideLevel
    IN  [l EXCEPT
            !.items = IF ~l.foundCursor
                      THEN Append(@, cursorItem(lineCount - 1))
                      ELSE @,
            !.autoSlideLevel = IF auto1 = MAX_SAFE_INTEGER THEN 0 ELSE auto1]

\* line 273: the location returned from the locals
returnLocation(l) ==
    [items |-> l.items,
     slideLevel |-> Or(l.explicitSlideLevel, Num(l.autoSlideLevel)).n]

\* lines 258-273
finishScan(l, lineCount) == returnLocation(finishLocals(l, lineCount))

-----------------------------------------------------------------------------
(* revealSlideIndex, one item at a time.                                    *)

\* lines 185-189 without the test of the level
countItemAnyHeading(item, index, slideLevel) ==
    IF item.type = kTitle \/ item.type = kHr \/ item.type = kHeading
    THEN index + 1
    ELSE index

\* lines 185-189: the counter after an item that is not the cursor
countItem(item, index, slideLevel) ==
    IF item.type = kTitle \/ item.type = kHr
    THEN index + 1
    ELSE IF item.type = kHeading /\ item.level <= slideLevel
         THEN index + 1
         ELSE index

\* line 184 without the clamp
cursorResultUnclamped(index) == index

\* line 184 counting the slide of the cursor itself
cursorResultOffByOne(index) == MathMax(index + 1, 0)

\* line 184
cursorResult(index) == MathMax(index, 0)

Pending == [settled |-> "pending", value |-> 0]
Fulfilled(v) == [settled |-> "fulfilled", value |-> v]
Rejected == [settled |-> "rejected", value |-> 0]

-----------------------------------------------------------------------------------------------------------------------------------------------------
(* Documents.  The parser emits tokens in source order: start lines never   *)
(* decrease, and every front matter, horizontal rule and heading starts on  *)
(* a later line than the one before it.  Front matter is the first block    *)
(* of a document and starts on line 0.  Only the order of the start lines   *)
(* and of the cursor line decides where the cursor item goes, so the        *)
(* bounded documents put each token on the line after the previous one and  *)
(* the first token after the front matter on line 1.  Tokens without a map  *)
(* and tokens that share a line are in the documents written out below.     *)

IsMapped(token) == token.map # <<>>

IsBoundary(token) ==
    IsMapped(token) /\ token.type \in {"front_matter", "hr", "heading_open"}

MappedIndexes(s) == {i \in 1..Len(s) : IsMapped(s[i])}

\* start line of the last mapped token, 0 when there is none
LastRow(s) ==
    IF MappedIndexes(s) = {}
    THEN 0
    ELSE s[CHOOSE i \in MappedIndexes(s) :
               \A j \in MappedIndexes(s) : j <= i].map[1]

BlocksAt(r) ==
    {Token("hr", <<r, r + 1>>, <<"-", "-", "-">>),
     Token("paragraph_open", <<r, r + 1>>, <<>>)}
      \cup {Token("heading_open", <<r, r + 1>>, HeadingMarkup(n)) :
                n \in 1..MaxLevel}

FrontMatterTokens ==
    {Token("front_matter", <<0, 1>>, m) : m \in FrontMatterMarkups}

UnmappedTokens ==
    {Token("front_matter", <<>>, <<SlideLevelLine(1)>>),
     Token("hr", <<>>, <<>>),
     Token("heading_open", <<>>, HeadingMarkup(1)),
     Token("heading_close", <<>>, HeadingMarkup(1))}

\* the tokens that may follow the stream s
Following(s) ==
    BlocksAt(LastRow(s) + 1)
      \cup (IF s = <<>> THEN FrontMatterTokens ELSE {})

RECURSIVE StreamsOfLen(_)
StreamsOfLen(n) ==
    IF n = 0
    THEN {<<>>}
    ELSE UNION {{Append(s, t) : t \in Following(s)} :
                    s \in StreamsOfLen(n - 1)}

TokenStreams == UNION {StreamsOfLen(n) : n \in 0..MaxLen}

Document(toks, lineCount) == [tokens |-> toks, lineCount |-> lineCount]

BoundedDocuments == {Document(s, LastRow(s) + 2) : s \in TokenStreams}

\* The documents the specification works through by hand.
TitleThenHeadings ==
    Document(<<Token("front_matter", <<0, 1>>, <<TitleLine>>),
               Token("heading_open", <<2, 3>>, HeadingMarkup(1)),
               Token("heading_open", <<5, 6>>, HeadingMarkup(2)),
               Token("hr", <<9, 10>>, <<"-", "-", "-">>)>>, 11)

LoneRule == Document(<<Token("hr", <<3, 4>>, <<"-", "-", "-">>)>>, 5)

ThreeSections ==
    Document(<<Token("heading_open", <<0, 1>>, HeadingMarkup(1)),
               Token("heading_open", <<1, 2>>, HeadingMarkup(1)),
               Token("heading_open", <<2, 3>>, HeadingMarkup(1))>>, 4)

ExplicitLevel ==
    Document(<<Token("front_matter", <<0, 1>>, <<SlideLevelLine(2)>>),
               Token("heading_open", <<1, 2>>, HeadingMarkup(1)),
               Token("paragraph_open", <<2, 3>>, <<>>),
               Token("heading_open", <<3, 4>>, HeadingMarkup(2))>>, 5)

\* "# A", text, "## B", text and a rule as markdown-it emits them
ParsedSections ==
    Document(<<Token("heading_open", <<0, 1>>, HeadingMarkup(1)),
               Token("inline", <<0, 1>>, <<>>),
               Token("heading_close", <<>>, HeadingMarkup(1)),
               Token("paragraph_open", <<1, 2>>, <<>>),
               Token("inline", <<1, 2>>, <<>>),
               Token("paragraph_close", <<>>, <<>>),
               Token("heading_open", <<3, 4>>, HeadingMarkup(2)),
               Token("inline", <<3, 4>>, <<>>),
               Token("heading_close", <<>>, HeadingMarkup(2)),
               Token("hr", <<5, 6>>, <<"-", "-", "-">>)>>, 7)

\* tokens that carry no map, of every type the scan tells apart
UnmappedBetween ==
    Document(<<Token("front_matter", <<>>, <<SlideLevelLine(1)>>),
               Token("heading_open", <<1, 2>>, HeadingMarkup(2)),
               Token("hr", <<>>, <<"-", "-", "-">>),
               Token("heading_open", <<>>, HeadingMarkup(1)),
               Token("paragraph_open", <<2, 3>>, <<>>)>>, 4)

ScenarioDocuments ==
    {TitleThenHeadings, LoneRule, ThreeSections, ExplicitLevel,
     ParsedSections, UnmappedBetween}

Documents == BoundedDocuments \cup ScenarioDocuments

CursorLines(d) == 0..(d.lineCount - 1)

-----------------------------------------------------------------------------
(* The preview page (lines 1-162).  A URL text is held as its base with   *)
(* the search parameters the page appends and deletes: the number of         *)
(* quartoPreviewReqId parameters and the values of the                       *)
(* quartoPreviewThemeCategory parameters, in order.  A text that is not a    *)
(* URL makes `new URL` throw.  A text that is missing is "".                 *)

UrlText(base, reqIds, themes) ==
    [t |-> "url", base |-> base, reqIds |-> reqIds, themes |-> themes]
Text(text) == [t |-> "text", base |-> text, reqIds |-> 0, themes |-> <<>>]
NoText == [t |-> "undefined", base |-> "", reqIds |-> 0, themes |-> <<>>]
NotUrlText == Text("preview")

PreviewUrl == UrlText("http://localhost:4200/", 0, <<>>)
SlideUrl == UrlText("http://localhost:4200/#/1", 1, <<"dark">>)

\* lines 3-15: the settings the page was created with
settings == [url |-> PreviewUrl, focusLockIndicatorEnabled |-> False]

\* line 149: the theme category the class list of the body gives
BodyThemes == {"light", "dark"}

\* lines 138-158: the page after navigateTo(rawUrl, theme); bodyTheme is the
\* theme category of the body, used when no theme is passed
navigateTo(w, rawUrl, theme, bodyTheme) ==
    LET src == IF rawUrl.t = "url"
               THEN [rawUrl EXCEPT
                        !.reqIds = @ + 1,
                        !.themes = Append(@, IF theme = "" THEN bodyTheme
                                             ELSE theme)]
               ELSE rawUrl
    IN  [w EXCEPT !.iframeSrc = src, !.state = rawUrl]

\* lines 160-162: classList.toggle(name, enabled) sets the class as the
\* flag says, and flips it when no flag is passed
toggleFocusLockIndicatorEnabled(w, enabled) ==
    [w EXCEPT !.focusLockIndicator =
                  IF enabled = Undefined THEN ~@ ELSE Truthy(enabled)]

\* lines 28-34: the page after updateAddressBar(href), for a URL text
updateAddressBar(w, href) ==
    LET url == [href EXCEPT !.reqIds = 0, !.themes = <<>>]
    IN  [w EXCEPT !.inputValue = url, !.state = url]

\* lines 1-36: the page when its script has run and the document has not
\* loaded yet: the listener of messages is registered, the others are not
InitialWebview ==
    [slideIndex |-> Num(0),
     inputValue |-> Text(""),
     iframeSrc |-> NoText,
     state |-> NoText,
     iframeFocused |-> FALSE,
     focusLockIndicator |-> FALSE,
     loaded |-> FALSE]

\* lines 92-136: the callback of onceDocumentLoaded
documentLoaded(w, bodyTheme) ==
    toggleFocusLockIndicatorEnabled(
        [navigateTo(w, settings.url, "", bodyTheme)
            EXCEPT !.inputValue = settings.url, !.loaded = TRUE],
        settings.focusLockIndicatorEnabled)

\* lines 102-105: the user has changed the text of the address bar
inputChange(w, text, bodyTheme) ==
    navigateTo([w EXCEPT !.inputValue = text], text, "", bodyTheme)

\* lines 122-130: the reload button
reloadClick(w, bodyTheme) == navigateTo(w, w.inputValue, "", bodyTheme)

\* The slides a reveal-init message lists, and the data it carries.
Slide(h) == [t |-> "object", n |-> h]
SlideList(k) == [t |-> "object", n |-> k, elems |-> [i \in 1..k |-> Slide(i - 1)]]
NoData == [t |-> "undefined", slides |-> Undefined, href |-> NotUrlText]
Data(slides, href) == [t |-> "object", slides |-> slides, href |-> href]

\* line 53: slides[slideIndex], for slides that are not null or undefined:
\* an element of a list, a character of a text, and undefined for an index
\* out of range and for a number or a boolean
SlideAt(slides, index) ==
    IF /\ slides.t \in {"object", "string"}
       /\ index.t = "number" /\ index.n >= 0 /\ index.n < slides.n
    THEN slides.elems[index.n + 1]
    ELSE Undefined

\* An event delivered to a listener of the page.  For a message event: the
\* fields of e.data the listener reads, with e.source and e.origin.
Event(event, type, message, source) ==
    [event |-> event, type |-> type, message |-> message,
     href |-> NotUrlText, index |-> Undefined, data |-> NoData,
     enabled |-> Undefined, theme |-> "",
     source |-> source, origin |-> source]

Message(type, message, source) == Event("message", type, message, source)

Messages ==
    {[Message("navigate", "", "host") EXCEPT !.href = h] :
         h \in {SlideUrl, NotUrlText}}
    \cup {Message("focus", "", "host")}
    \cup {[Message("setSlideIndex", "", "host") EXCEPT !.index = i] :
              i \in {Undefined, Num(0), Num(1), Num(MaxSlides)}}
    \cup {[Message("", "reveal-init", "iframe")
               EXCEPT !.data = Data(SlideList(k), NotUrlText)] :
              k \in {0, MaxSlides}}
    \cup {[Message("", "reveal-init", "popup")
               EXCEPT !.data = Data(SlideList(MaxSlides), NotUrlText)],
          [Message("", "reveal-init", "iframe") EXCEPT !.data = NoData],
          [Message("", "reveal-hashchange", "iframe")
               EXCEPT !.data = Data(Undefined, SlideUrl)],
          [Message("focus", "setSlideIndex", "host") EXCEPT !.index = Num(1)],
          Message("", "reveal-theme", "iframe")}
    \cup {[Message("", "reveal-init", "iframe")
               EXCEPT !.data = Data(slides, NotUrlText)] :
              slides \in {Undefined, Null, True, Num(MaxSlides),
                          Str(<<"a", "b">>)}}
    \cup {[Message("didChangeFocusLockIndicatorEnabled", "", "host")
               EXCEPT !.enabled = e] : e \in {True, False}}
    \cup {[Message("didChangeActiveColorTheme", "", "host")
               EXCEPT !.theme = th] : th \in {"", "light"}}

\* the texts the user types into the address bar
TypedTexts == {SlideUrl, NotUrlText}

\* line 37: e.data.type || e.data.message
Kind(e) == IF e.type # "" THEN e.type ELSE e.message

\* what a case of the handler leaves: the page, and the messages it posted
Handled(w, posts) == [webview |-> w, posts |-> posts]

\* source.postMessage(message, targetOrigin)
Post(source, message, data, targetOrigin) ==
    [to |-> source, message |-> message, data |-> data,
     targetOrigin |-> targetOrigin]

\* lines 38-41; `new URL` throws on a text that is not a URL
caseNavigate(w, e) ==
    IF e.href.t = "url"
    THEN Handled(updateAddressBar(w, e.href), <<>>)
    ELSE Handled(w, <<>>)

\* lines 42-45
caseFocus(w, e) == Handled([w EXCEPT !.iframeFocused = TRUE], <<>>)

\* lines 46-49 without the `|| 0`
caseSetSlideIndexAsSent(w, e) ==
    Handled([w EXCEPT !.slideIndex = e.index], <<>>)

\* lines 46-49
caseSetSlideIndex(w, e) ==
    Handled([w EXCEPT !.slideIndex = Or(e.index, Num(0))], <<>>)

\* lines 50-64; reading `slides` of no data (line 52), or an element of
\* slides that are null or undefined (line 53), throws before anything is
\* posted
caseRevealInit(w, e) ==
    IF e.data.t # "object" \/ e.data.slides.t \in {"undefined", "null"}
    THEN Handled(w, <<>>)
    ELSE LET slide == SlideAt(e.data.slides, w.slideIndex)
         IN  Handled(w,
                     (IF Truthy(slide)
                      THEN <<Post(e.source, "reveal-slide", slide, e.origin)>>
                      ELSE <<>>)
                     \o <<Post(e.source, "reveal-ready", Undefined, e.origin)>>)

\* lines 65-68
caseRevealHashchange(w, e) ==
    IF e.data.t = "object" /\ e.data.href.t = "url"
    THEN Handled(updateAddressBar(w, e.data.href), <<>>)
    ELSE Handled(w, <<>>)

\* lines 69-72
caseDidChangeFocusLockIndicatorEnabled(w, e) ==
    Handled(toggleFocusLockIndicatorEnabled(w, e.enabled), <<>>)

\* lines 74-77
caseDidChangeActiveColorTheme(w, e, bodyTheme) ==
    Handled(navigateTo(w, w.inputValue, e.theme, bodyTheme), <<>>)

-----------------------------------------------------------------------------
(* The calls.                                                               *)

NoDocument == Document(<<>>, 1)
NoLocation == [items |-> <<>>, slideLevel |-> 0]

\* lines 221-225: the variables of one call of revealEditorLocation, shared
\* with every other call as module-level variables would be
LocalsShared(c) ==
    [items |-> items[c],
     explicitSlideLevel |-> explicitSlideLevel[c],
     autoSlideLevel |-> autoSlideLevel[1],
     pendingAutoSlideLevel |-> pendingAutoSlideLevel[1],
     foundCursor |-> foundCursor[c]]

\* lines 221-225: the variables of one call of revealEditorLocation
Locals(c) ==
    [items |-> items[c],
     explicitSlideLevel |-> explicitSlideLevel[c],
     autoSlideLevel |-> autoSlideLevel[c],
     pendingAutoSlideLevel |-> pendingAutoSlideLevel[c],
     foundCursor |-> foundCursor[c]]

SetLocals(c, l) ==
    /\ items' = [items EXCEPT ![c] = l.items]
    /\ explicitSlideLevel' = [explicitSlideLevel EXCEPT ![c] = l.explicitSlideLevel]
    /\ autoSlideLevel' = [autoSlideLevel EXCEPT ![c] = l.autoSlideLevel]
    /\ pendingAutoSlideLevel' =
           [pendingAutoSlideLevel EXCEPT ![c] = l.pendingAutoSlideLevel]
    /\ foundCursor' = [foundCursor EXCEPT ![c] = l.foundCursor]

Init ==
    /\ pc = [c \in Calls |-> "idle"]
    /\ doc = [c \in Calls |-> NoDocument]
    /\ cursorPos = [c \in Calls |-> 0]
    /\ tokens = [c \in Calls |-> <<>>]
    /\ tokenIndex = [c \in Calls |-> 0]
    /\ items = [c \in Calls |-> NewLocals.items]
    /\ explicitSlideLevel = [c \in Calls |-> NewLocals.explicitSlideLevel]
    /\ autoSlideLevel = [c \in Calls |-> NewLocals.autoSlideLevel]
    /\ pendingAutoSlideLevel = [c \in Calls |-> NewLocals.pendingAutoSlideLevel]
    /\ foundCursor = [c \in Calls |-> NewLocals.foundCursor]
    /\ returned = [c \in Calls |-> NoLocation]
    /\ location = [c \in Calls |-> NoLocation]
    /\ itemIndex = [c \in Calls |-> 0]
    /\ slideIndex = [c \in Calls |-> -1]
    /\ result = [c \in Calls |-> Pending]
    /\ webview = InitialWebview
    /\ received = <<>>
    /\ posted = <<>>

\* revealSlideIndex(cursorPos, doc, engine) is called: it calls
\* revealEditorLocation, which declares its locals and awaits engine.parse.
Invoke(c, d, line) ==
    /\ UNCHANGED page
    /\ pc[c] = "idle"
    /\ pc' = [pc EXCEPT ![c] = "await"]
    /\ doc' = [doc EXCEPT ![c] = d]
    /\ cursorPos' = [cursorPos EXCEPT ![c] = line]
    /\ SetLocals(c, NewLocals)
    /\ UNCHANGED <<tokens, tokenIndex, returned, location, itemIndex,
                   slideIndex, result>>

Start(c) ==
    /\ pc[c] = "idle"
    /\ \E d \in Documents : \E line \in CursorLines(d) : Invoke(c, d, line)

\* line 226: engine.parse(doc) resolves with the tokens of the document
ParseResolved(c) ==
    /\ UNCHANGED page
    /\ pc[c] = "await"
    /\ pc' = [pc EXCEPT ![c] = "scan"]
    /\ tokens' = [tokens EXCEPT ![c] = doc[c].tokens]
    /\ tokenIndex' = [tokenIndex EXCEPT ![c] = 1]
    /\ UNCHANGED <<doc, cursorPos, items, explicitSlideLevel, autoSlideLevel,
                   pendingAutoSlideLevel, foundCursor, returned, location,
                   itemIndex,
                   slideIndex, result>>

AtToken(c) ==
    /\ pc[c] = "scan"
    /\ tokenIndex[c] <= Len(tokens[c])

CurrentToken(c) == tokens[c][tokenIndex[c]]

NextToken(c) ==
    /\ tokenIndex' = [tokenIndex EXCEPT ![c] = @ + 1]
    /\ UNCHANGED <<pc, doc, cursorPos, tokens, returned, location, itemIndex,
                   slideIndex, result>>

\* line 228: a token without a map is skipped
ScanUnmapped(c) ==
    /\ UNCHANGED page
    /\ AtToken(c)
    /\ ~IsMapped(CurrentToken(c))
    /\ SetLocals(c, scanToken(Locals(c), CurrentToken(c), cursorPos[c]))
    /\ NextToken(c)

\* lines 230-237; an exception leaving slideLevelFromYaml rejects the call
ScanFrontMatter(c) ==
    /\ UNCHANGED page
    /\ AtToken(c)
    /\ IsMapped(CurrentToken(c))
    /\ CurrentToken(c).type = "front_matter"
    /\ LET token == CurrentToken(c)
           l == scanFrontMatter(
                    placeCursor(Locals(c), token.map[1], cursorPos[c]), token)
       IN  IF l.explicitSlideLevel = Thrown
           THEN /\ pc' = [pc EXCEPT ![c] = "rejected"]
                /\ result' = [result EXCEPT ![c] = Rejected]
                /\ UNCHANGED <<doc, cursorPos, tokens, tokenIndex, items,
                               explicitSlideLevel, autoSlideLevel,
                               pendingAutoSlideLevel, foundCursor, returned, location,
                               itemIndex, slideIndex>>
           ELSE SetLocals(c, l) /\ NextToken(c)

\* lines 230-234, 238-240
ScanHr(c) ==
    /\ UNCHANGED page
    /\ AtToken(c)
    /\ IsMapped(CurrentToken(c))
    /\ CurrentToken(c).type = "hr"
    /\ LET row == CurrentToken(c).map[1]
       IN  SetLocals(c, scanHr(placeCursor(Locals(c), row, cursorPos[c]), row))
    /\ NextToken(c)

\* lines 230-234, 241-248
ScanHeading(c) ==
    /\ UNCHANGED page
    /\ AtToken(c)
    /\ IsMapped(CurrentToken(c))
    /\ CurrentToken(c).type = "heading_open"
    /\ LET token == CurrentToken(c)
           row == token.map[1]
       IN  SetLocals(c, scanHeading(placeCursor(Locals(c), row, cursorPos[c]),
                                    token, row))
    /\ NextToken(c)

\* lines 230-234, 249-254
ScanOther(c) ==
    /\ UNCHANGED page
    /\ AtToken(c)
    /\ IsMapped(CurrentToken(c))
    /\ CurrentToken(c).type \notin {"front_matter", "hr", "heading_open"}
    /\ LET row == CurrentToken(c).map[1]
       IN  SetLocals(c, scanOther(placeCursor(Locals(c), row, cursorPos[c])))
    /\ NextToken(c)

\* lines 258-273: the loop is over, revealEditorLocation returns the
\* location; its caller is resumed later
ScanEnd(c) ==
    /\ UNCHANGED page
    /\ pc[c] = "scan"
    /\ tokenIndex[c] > Len(tokens[c])
    /\ pc' = [pc EXCEPT ![c] = "returned"]
    /\ SetLocals(c, finishLocals(Locals(c), doc[c].lineCount))
    /\ returned' = [returned EXCEPT
                        ![c] = finishScan(Locals(c), doc[c].lineCount)]
    /\ UNCHANGED <<doc, cursorPos, tokens, tokenIndex, location, itemIndex,
                   slideIndex, result>>

\* lines 180-181: the await of revealSlideIndex resumes with the location,
\* and the count starts
LocationResolved(c) ==
    /\ UNCHANGED page
    /\ pc[c] = "returned"
    /\ pc' = [pc EXCEPT ![c] = "locate"]
    /\ location' = [location EXCEPT ![c] = returned[c]]
    /\ slideIndex' = [slideIndex EXCEPT ![c] = -1]
    /\ itemIndex' = [itemIndex EXCEPT ![c] = 1]
    /\ UNCHANGED <<doc, cursorPos, tokens, tokenIndex, items,
                   explicitSlideLevel, autoSlideLevel, pendingAutoSlideLevel,
                   foundCursor, returned, result>>

AtItem(c) ==
    /\ pc[c] = "locate"
    /\ itemIndex[c] <= Len(location[c].items)

CurrentItem(c) == location[c].items[itemIndex[c]]

\* lines 185-189: an item that is not the cursor
LocateItem(c) ==
    /\ UNCHANGED page
    /\ AtItem(c)
    /\ CurrentItem(c).type # kCursor
    /\ slideIndex' = [slideIndex EXCEPT
                         ![c] = countItem(CurrentItem(c), @,
                                          location[c].slideLevel)]
    /\ itemIndex' = [itemIndex EXCEPT ![c] = @ + 1]
    /\ UNCHANGED <<pc, doc, cursorPos, tokens, tokenIndex, items,
                   explicitSlideLevel, autoSlideLevel, pendingAutoSlideLevel,
                   foundCursor, returned, location, result>>

\* lines 183-184 and 191: the cursor item returns the clamped counter, the
\* end of the items returns 0
LocateReturn(c) ==
    /\ UNCHANGED page
    /\ pc[c] = "locate"
    /\ \/ itemIndex[c] > Len(location[c].items)
       \/ CurrentItem(c).type = kCursor
    /\ pc' = [pc EXCEPT ![c] = "done"]
    /\ result' = [result EXCEPT
                      ![c] = IF itemIndex[c] > Len(location[c].items)
                             THEN Fulfilled(0)
                             ELSE Fulfilled(cursorResult(slideIndex[c]))]
    /\ UNCHANGED <<doc, cursorPos, tokens, tokenIndex, items,
                   explicitSlideLevel, autoSlideLevel, pendingAutoSlideLevel,
                   foundCursor, returned, location, itemIndex, slideIndex>>

\* The caller has taken the result; the frame of the call is gone.
Release(c) ==
    /\ UNCHANGED page
    /\ pc[c] \in {"done", "rejected"}
    /\ pc' = [pc EXCEPT ![c] = "idle"]
    /\ doc' = [doc EXCEPT ![c] = NoDocument]
    /\ cursorPos' = [cursorPos EXCEPT ![c] = 0]
    /\ tokens' = [tokens EXCEPT ![c] = <<>>]
    /\ tokenIndex' = [tokenIndex EXCEPT ![c] = 0]
    /\ SetLocals(c, NewLocals)
    /\ returned' = [returned EXCEPT ![c] = NoLocation]
    /\ location' = [location EXCEPT ![c] = NoLocation]
    /\ itemIndex' = [itemIndex EXCEPT ![c] = 0]
    /\ slideIndex' = [slideIndex EXCEPT ![c] = -1]
    /\ result' = [result EXCEPT ![c] = Pending]

Next ==
    \/ Start(1)
    \/ ParseResolved(1)
    \/ ScanUnmapped(1)
    \/ ScanFrontMatter(1)
    \/ ScanHr(1)
    \/ ScanHeading(1)
    \/ ScanOther(1)
    \/ ScanEnd(1)
    \/ LocationResolved(1)
    \/ LocateItem(1)
    \/ LocateReturn(1)
    \/ Release(1)

Spec == Init /\ [][Next]_vars

\* Two calls in flight at once, each on one of the documents written out
\* above: a call suspends only at its await, and the steps of the two
\* calls interleave.
ConcurrentDocuments ==
    {TitleThenHeadings, LoneRule, ThreeSections, ExplicitLevel, UnmappedBetween}

StartConcurrent(c) ==
    /\ pc[c] = "idle"
    /\ \E d \in ConcurrentDocuments :
           \E line \in CursorLines(d) : Invoke(c, d, line)

NextConc ==
    \E c \in Calls :
        \/ StartConcurrent(c)
        \/ ParseResolved(c)
        \/ ScanUnmapped(c)
        \/ ScanFrontMatter(c)
        \/ ScanHr(c)
        \/ ScanHeading(c)
        \/ ScanOther(c)
        \/ ScanEnd(c)
        \/ LocationResolved(c)
        \/ LocateItem(c)
        \/ LocateReturn(c)
        \/ Release(c)

SpecConc == Init /\ [][NextConc]_vars

\* The variables of the calls of revealSlideIndex.
calls == <<pc, doc, cursorPos, tokens, tokenIndex, items, explicitSlideLevel,
           autoSlideLevel, pendingAutoSlideLevel, foundCursor, returned,
           location, itemIndex, slideIndex, result>>

\* a listener of the page has run on the event e
Deliver(e, h) ==
    /\ Len(received) < MaxMessages
    /\ received' = Append(received, e)
    /\ webview' = h.webview
    /\ posted' = posted \o h.posts
    /\ UNCHANGED calls

Navigate ==
    \E e \in Messages :
        Kind(e) = "navigate" /\ Deliver(e, caseNavigate(webview, e))

Focus ==
    \E e \in Messages :
        Kind(e) = "focus" /\ Deliver(e, caseFocus(webview, e))

SetSlideIndex ==
    \E e \in Messages :
        Kind(e) = "setSlideIndex" /\ Deliver(e, caseSetSlideIndex(webview, e))

RevealInit ==
    \E e \in Messages :
        Kind(e) = "reveal-init" /\ Deliver(e, caseRevealInit(webview, e))

RevealHashchange ==
    \E e \in Messages :
        /\ Kind(e) = "reveal-hashchange"
        /\ Deliver(e, caseRevealHashchange(webview, e))

DidChangeFocusLockIndicatorEnabled ==
    \E e \in Messages :
        /\ Kind(e) = "didChangeFocusLockIndicatorEnabled"
        /\ Deliver(e, caseDidChangeFocusLockIndicatorEnabled(webview, e))

DidChangeActiveColorTheme ==
    \E e \in Messages : \E bodyTheme \in BodyThemes :
        /\ Kind(e) = "didChangeActiveColorTheme"
        /\ Deliver(e, caseDidChangeActiveColorTheme(webview, e, bodyTheme))

MessageKinds ==
    {"navigate", "focus", "setSlideIndex", "reveal-init", "reveal-hashchange",
     "didChangeFocusLockIndicatorEnabled", "didChangeActiveColorTheme"}

\* line 37: no case of the switch is taken
OtherMessage ==
    \E e \in Messages :
        Kind(e) \notin MessageKinds /\ Deliver(e, Handled(webview, <<>>))

\* lines 82-90, 92: the document has loaded
DocumentLoaded ==
    \E bodyTheme \in BodyThemes :
        /\ ~webview.loaded
        /\ Deliver(Event("DOMContentLoaded", "", "", "document"),
                   Handled(documentLoaded(webview, bodyTheme), <<>>))

\* lines 102-105
InputChange ==
    \E text \in TypedTexts : \E bodyTheme \in BodyThemes :
        /\ webview.loaded
        /\ Deliver([Event("change", "", "", "input") EXCEPT !.href = text],
                   Handled(inputChange(webview, text, bodyTheme), <<>>))

\* lines 122-130
ReloadClick ==
    \E bodyTheme \in BodyThemes :
        /\ webview.loaded
        /\ Deliver(Event("click", "", "", "reload-button"),
                   Handled(reloadClick(webview, bodyTheme), <<>>))

NextWebview ==
    \/ DocumentLoaded
    \/ InputChange
    \/ ReloadClick
    \/ Navigate
    \/ Focus
    \/ SetSlideIndex
    \/ RevealInit
    \/ RevealHashchange
    \/ DidChangeFocusLockIndicatorEnabled
    \/ DidChangeActiveColorTheme
    \/ OtherMessage

SpecWebview == Init /\ [][NextWebview]_vars


-----------------------------------------------------------------------------
(* The two functions run to completion on a document and a cursor line.     *)

RECURSIVE scanFrom(_, _, _, _)
\* lines 227-256: the loop from token i on
scanFrom(l, toks, i, line) ==
    IF i > Len(toks)
    THEN l
    ELSE scanFrom(scanToken(l, toks[i], line), toks, i + 1, line)

\* lines 216-274
revealEditorLocation(d, line) ==
    finishScan(scanFrom(NewLocals, d.tokens, 1, line), d.lineCount)

RECURSIVE countFrom(_, _, _, _)
\* lines 182-191: the loop from item j on
countFrom(its, j, index, slideLevel) ==
    IF j > Len(its)
    THEN 0
    ELSE IF its[j].type = kCursor
         THEN cursorResult(index)
         ELSE countFrom(its, j + 1, countItem(its[j], index, slideLevel),
                        slideLevel)

\* lines 175-192
revealSlideIndex(d, line) ==
    LET loc == revealEditorLocation(d, line)
    IN  countFrom(loc.items, 1, -1, loc.slideLevel)

-----------------------------------------------------------------------------
(* Properties.  They speak of call 1, the call of Spec.                     *)

Done == pc[1] = "done"
Stream == doc[1].tokens
Line == cursorPos[1]
SlideLevel == location[1].slideLevel
Ordinal == result[1].value

TypedIndexes(s, type) == {i \in MappedIndexes(s) : s[i].type = type}

\* The slide level a front-matter block declares: the top-level key, or
\* else the nested one.
DeclaredLevel(markup) ==
    LET meta == parseFrontMatterStr(markup)
    IN  IF meta.threw \/ ~meta.isMapping THEN Undefined
        ELSE IF meta.slideLevel.t = "number" THEN meta.slideLevel
        ELSE meta.revealjsSlideLevel

\* C1: whenever the stream holds a front-matter token whose configuration
\* declares a slide level n >= 0, the slide level of the returned location
\* is n, n = 0 included.
C1_ExplicitLevelIsResult ==
    Done =>
        \A i \in TypedIndexes(Stream, "front_matter") :
            DeclaredLevel(Stream[i].markup).t = "number" =>
                SlideLevel = DeclaredLevel(Stream[i].markup).n

\* C2: on one token stream the ordinal never decreases as the cursor line
\* grows.
C2_OrdinalMonotone ==
    Done =>
        \A later \in CursorLines(doc[1]) :
            Line <= later => Ordinal <= revealSlideIndex(doc[1], later)

C2_Witness ==
    /\ Done
    /\ Ordinal >= 1
    /\ \E later \in CursorLines(doc[1]) :
           Line < later /\ Ordinal < revealSlideIndex(doc[1], later)

\* C3 as stated: front matter without slide-level at row 0, headings of
\* level 1 at row 2 and of level 2 at row 5, a horizontal rule at row 9 and
\* the cursor on line 6 give slide level 2 and ordinal 2.
C3_ScenarioLevelTwo ==
    (Done /\ doc[1] = TitleThenHeadings /\ Line = 6) =>
        (SlideLevel = 2 /\ result[1] = Fulfilled(2))

\* C3 amended: on that stream and cursor line the slide level is 0 and the
\* ordinal is 0: no heading is followed by content, and the rule drops the
\* pending level.
C3_ScenarioLevelZero ==
    (Done /\ doc[1] = TitleThenHeadings /\ Line = 6) =>
        (SlideLevel = 0 /\ result[1] = Fulfilled(0))

C3_Witness ==
    /\ Done
    /\ doc[1] = TitleThenHeadings
    /\ Line = 6
    /\ Len(location[1].items) = 5
    /\ location[1].items[4].type = kCursor

HeadingLevels(s) ==
    {getHeaderLevel(s[i].markup) : i \in TypedIndexes(s, "heading_open")}

HasType(s, types) == \E i \in 1..Len(s) : s[i].type \in types

\* C4: with no front matter and no horizontal rule, and all headings of one
\* level L (at least one heading), the inferred slide level is L.
C4_UniformHeadings ==
    (Done /\ ~HasType(Stream, {"front_matter", "hr"})) =>
        \A L \in HeadingLevels(Stream) :
            HeadingLevels(Stream) = {L} => SlideLevel = L

C4_Witness ==
    /\ Done
    /\ ~HasType(Stream, {"front_matter", "hr"})
    /\ HeadingLevels(Stream) = {2}
    /\ Cardinality(TypedIndexes(Stream, "heading_open")) >= 2
    /\ HasType(Stream, {"paragraph_open"})
    /\ SlideLevel = 2

\* C5: a stream without heading and without horizontal rule gives ordinal 0
\* on every cursor line.
C5_NoBoundaryOrdinalZero ==
    (Done /\ ~HasType(Stream, {"heading_open", "hr"})) =>
        result[1] = Fulfilled(0)

C5_Witness ==
    /\ Done
    /\ ~HasType(Stream, {"heading_open", "hr"})
    /\ HasType(Stream, {"front_matter"})
    /\ HasType(Stream, {"paragraph_open"})
    /\ Line > 0
    /\ slideIndex[1] = 0

BoundaryIndexes(s) == {i \in MappedIndexes(s) : IsBoundary(s[i])}

\* the mapped tokens up to h that open a slide at the given slide level
CountedIndexes(s, h, level) ==
    {i \in BoundaryIndexes(s) :
        /\ i <= h
        /\ \/ s[i].type \in {"front_matter", "hr"}
           \/ getHeaderLevel(s[i].markup) <= level}

\* position of the first cursor item, 0 when there is none
CursorIndex(its) ==
    IF \E k \in 1..Len(its) : its[k].type = kCursor
    THEN CHOOSE k \in 1..Len(its) :
             /\ its[k].type = kCursor
             /\ \A j \in 1..(k - 1) : its[j].type # kCursor
    ELSE 0

\* C6: with the cursor on the start line of a heading, the cursor item
\* comes after the item of that heading, and the ordinal is the number of
\* slide-opening items up to and including the heading, less one, clamped
\* to 0; a heading within the slide level is itself counted.
C6_CursorOnHeadingLine ==
    Done =>
        \A h \in TypedIndexes(Stream, "heading_open") :
            Stream[h].map[1] = Line =>
                /\ CursorIndex(location[1].items) >
                       Cardinality({i \in BoundaryIndexes(Stream) : i <= h})
                /\ Ordinal =
                       MathMax(Cardinality(
                                   CountedIndexes(Stream, h, SlideLevel)) - 1, 0)
                /\ getHeaderLevel(Stream[h].markup) <= SlideLevel =>
                       Ordinal + 1 = Cardinality(
                                         CountedIndexes(Stream, h, SlideLevel))

C6_Witness ==
    /\ Done
    /\ foundCursor[1]
    /\ \E h \in TypedIndexes(Stream, "heading_open") :
           /\ Stream[h].map[1] = Line
           /\ getHeaderLevel(Stream[h].markup) <= SlideLevel
           /\ h > 1
    /\ Ordinal >= 1
    /\ CursorIndex(location[1].items) < Len(location[1].items)

FailsToDecode(markup) ==
    parseFrontMatterStr(markup).threw \/ ~parseFrontMatterStr(markup).isMapping

\* the document with every front-matter block replaced by one that decodes
\* to a mapping without a slide-level key
WithoutSlideLevelKey(d) ==
    Document([i \in 1..Len(d.tokens) |->
                 IF IsMapped(d.tokens[i]) /\ d.tokens[i].type = "front_matter"
                 THEN Token("front_matter", d.tokens[i].map, <<TitleLine>>)
                 ELSE d.tokens[i]],
             d.lineCount)

\* C7: when the front-matter block fails to decode (the decoder throws or
\* yields no mapping) the call does not reject: it returns an ordinal >= 0,
\* and the slide level is the one inferred when the front matter has no
\* slide-level key.
C7_DecodeFailureIsNoLevel ==
    (/\ pc[1] \in {"done", "rejected"}
     /\ \E i \in TypedIndexes(Stream, "front_matter") :
            FailsToDecode(Stream[i].markup)) =>
        /\ pc[1] = "done"
        /\ result[1].settled = "fulfilled"
        /\ Ordinal >= 0
        /\ SlideLevel =
               revealEditorLocation(WithoutSlideLevelKey(doc[1]), Line).slideLevel

C7_Witness ==
    /\ Done
    /\ \E i \in TypedIndexes(Stream, "front_matter") :
           parseFrontMatterStr(Stream[i].markup).threw
    /\ SlideLevel = 2
    /\ Ordinal = 1

\* C8: when no title, horizontal rule or heading within the slide level
\* precedes the cursor item, the ordinal is 0, never the counter's -1.
C8_NothingBeforeCursorIsZero ==
    (/\ Done
     /\ \A j \in 1..(CursorIndex(location[1].items) - 1) :
            /\ location[1].items[j].type = kHeading
            /\ location[1].items[j].level > SlideLevel) =>
        result[1] = Fulfilled(0)

C8_Witness ==
    /\ Done
    /\ slideIndex[1] = -1
    /\ CursorIndex(location[1].items) = 1
    /\ Len(location[1].items) > 1
    /\ location[1].items[2].type = kHr
    /\ result[1] = Fulfilled(0)

\* C9: calls share nothing: with two calls interleaved on their own
\* documents, each returns the location and the ordinal it returns when it
\* runs alone, whatever the other call does and whatever ran before.
C9_CallsAreIsolated ==
    \A c \in Calls :
        pc[c] = "done" =>
            /\ location[c] = revealEditorLocation(doc[c], cursorPos[c])
            /\ result[c] = Fulfilled(revealSlideIndex(doc[c], cursorPos[c]))

C9_Witness ==
    /\ pc[1] = "done"
    /\ pc[2] = "scan"
    /\ doc[1] # doc[2]
    /\ tokenIndex[2] > 1
    /\ pendingAutoSlideLevel[2] > 0
    /\ location[1].slideLevel = 2
    /\ result[1].value >= 1

\* a heading arrives at call 1 that is not below the accepted level while
\* a level is pending, and the scan moves past it
HeadingNotBelowWhilePending ==
    /\ AtToken(1)
    /\ IsMapped(CurrentToken(1))
    /\ CurrentToken(1).type = "heading_open"
    /\ getHeaderLevel(CurrentToken(1).markup) >= autoSlideLevel[1]
    /\ pendingAutoSlideLevel[1] > 0
    /\ tokenIndex'[1] = tokenIndex[1] + 1

\* C10 as stated: such a heading commits the pending level: the accepted
\* level takes its value and nothing remains pending.
C10_HeadingCommitsPending ==
    [][HeadingNotBelowWhilePending =>
           /\ autoSlideLevel'[1] = pendingAutoSlideLevel[1]
           /\ pendingAutoSlideLevel'[1] = 0]_vars

\* C10 amended: such a heading drops the pending level: the accepted level
\* stays as it was and nothing remains pending.
C10_HeadingDropsPending ==
    [][HeadingNotBelowWhilePending =>
           /\ autoSlideLevel'[1] = autoSlideLevel[1]
           /\ pendingAutoSlideLevel'[1] = 0]_vars

\* the scan has just passed such a heading: the token before it was a
\* heading below the accepted level, which it left pending
C10_Witness ==
    /\ pc[1] = "scan"
    /\ tokenIndex[1] > 2
    /\ LET this == tokens[1][tokenIndex[1] - 1]
           before == tokens[1][tokenIndex[1] - 2]
       IN  /\ IsMapped(this) /\ this.type = "heading_open"
           /\ IsMapped(before) /\ before.type = "heading_open"
           /\ getHeaderLevel(before.markup) < autoSlideLevel[1]
           /\ getHeaderLevel(this.markup) >= autoSlideLevel[1]
    /\ pendingAutoSlideLevel[1] = 0
    /\ autoSlideLevel[1] < MAX_SAFE_INTEGER

\* call 1 is at a mapped token of one of the types and the scan moves past it
Passes(types) ==
    /\ AtToken(1)
    /\ IsMapped(CurrentToken(1))
    /\ CurrentToken(1).type \in types
    /\ tokenIndex'[1] = tokenIndex[1] + 1

\* the items that are not the cursor item
StructuralItems(its) == SelectSeq(its, LAMBDA it : it.type # kCursor)

\* C11: a horizontal rule clears the pending level and leaves the accepted
\* level and the explicit level as they were, so it never commits the
\* heading before it.
C11_RuleClearsPending ==
    [][Passes({"hr"}) =>
           /\ pendingAutoSlideLevel'[1] = 0
           /\ autoSlideLevel'[1] = autoSlideLevel[1]
           /\ explicitSlideLevel'[1] = explicitSlideLevel[1]]_vars

\* the scan has just passed a rule that followed a heading left pending
C11_Witness ==
    /\ pc[1] = "scan"
    /\ tokenIndex[1] > 2
    /\ LET this == tokens[1][tokenIndex[1] - 1]
           before == tokens[1][tokenIndex[1] - 2]
       IN  /\ IsMapped(this) /\ this.type = "hr"
           /\ IsMapped(before) /\ before.type = "heading_open"
           /\ getHeaderLevel(before.markup) < autoSlideLevel[1]
    /\ autoSlideLevel[1] < MAX_SAFE_INTEGER
    /\ pendingAutoSlideLevel[1] = 0

OtherTypes == {"paragraph_open", "inline"}

\* C12: a mapped token that is no heading, rule or front matter commits a
\* pending level (the accepted level takes its value, nothing stays
\* pending); with nothing pending it leaves the inference state alone.  In
\* both cases it adds no item of its own: only the cursor item placed
\* before it can join the items.
C12_OtherTokenCommits ==
    [][Passes(OtherTypes) =>
           /\ pendingAutoSlideLevel'[1] = 0
           /\ autoSlideLevel'[1] = IF pendingAutoSlideLevel[1] > 0
                                   THEN pendingAutoSlideLevel[1]
                                   ELSE autoSlideLevel[1]
           /\ explicitSlideLevel'[1] = explicitSlideLevel[1]
           /\ StructuralItems(items'[1]) = StructuralItems(items[1])
           /\ Len(items'[1]) <= Len(items[1]) + 1]_vars

\* the scan has just passed such a token that followed a heading, whose
\* level it committed
C12_Witness ==
    /\ pc[1] = "scan"
    /\ tokenIndex[1] > 3
    /\ LET this == tokens[1][tokenIndex[1] - 1]
           before == tokens[1][tokenIndex[1] - 2]
       IN  /\ IsMapped(this) /\ this.type \in OtherTypes
           /\ IsMapped(before) /\ before.type = "heading_open"
           /\ getHeaderLevel(before.markup) = autoSlideLevel[1]
    /\ autoSlideLevel[1] = 1
    /\ pendingAutoSlideLevel[1] = 0

Scanned == pc[1] \in {"locate", "done"}

\* the step from the end of the loop to the return of revealEditorLocation
EndsScan == pc[1] = "scan" /\ pc'[1] = "returned"

\* C13: at the end of the stream a level still pending becomes the
\* inferred slide level, and when nothing was committed during the scan or
\* at its end the inferred slide level is 0 (the inferred level is the
\* slide level whenever the front matter gives none).
C13_EndOfStream ==
    [][EndsScan =>
           /\ pendingAutoSlideLevel[1] > 0 =>
                  autoSlideLevel'[1] = pendingAutoSlideLevel[1]
           /\ (pendingAutoSlideLevel[1] = 0
                  /\ autoSlideLevel[1] = MAX_SAFE_INTEGER) =>
                  autoSlideLevel'[1] = 0
           /\ ~Truthy(explicitSlideLevel[1]) =>
                  returned'[1].slideLevel = autoSlideLevel'[1]]_vars

\* level 2 was accepted in the loop, level 1 was pending at its end and is
\* the slide level
C13_Witness ==
    /\ Done
    /\ ~Truthy(explicitSlideLevel[1])
    /\ Len(Stream) = 3
    /\ \A i \in 1..3 : IsMapped(Stream[i])
    /\ Stream[1].type = "heading_open" /\ getHeaderLevel(Stream[1].markup) = 2
    /\ Stream[2].type \in {"paragraph_open", "inline"}
    /\ Stream[3].type = "heading_open" /\ getHeaderLevel(Stream[3].markup) = 1
    /\ pendingAutoSlideLevel[1] = 1
    /\ autoSlideLevel[1] = 1
    /\ SlideLevel = 1

\* a heading was scanned, nothing was ever committed, the level is 0
C13_WitnessNothingCommitted ==
    /\ Done
    /\ HasType(Stream, {"heading_open"})
    /\ ~HasType(Stream, {"front_matter"})
    /\ pendingAutoSlideLevel[1] = 0
    /\ autoSlideLevel[1] = 0
    /\ SlideLevel = 0

\* the items before the cursor item that open a slide at the given level
CountedBeforeCursor(its, level) ==
    {j \in 1..(CursorIndex(its) - 1) :
        \/ its[j].type \in {kTitle, kHr}
        \/ its[j].type = kHeading /\ its[j].level <= level}

\* C14: the ordinal is max(k - 1, 0), k being the number of title items,
\* rule items and heading items of level <= slide level before the cursor
\* item; deeper headings and the items after the cursor do not count.
C14_OrdinalIsCountBeforeCursor ==
    Done =>
        result[1] = Fulfilled(MathMax(
            Cardinality(CountedBeforeCursor(location[1].items, SlideLevel)) - 1,
            0))

C14_Witness ==
    /\ Done
    /\ Ordinal >= 1
    /\ LET its == location[1].items
       IN  /\ \E j \in 1..(CursorIndex(its) - 1) :
                  its[j].type = kHeading /\ its[j].level > SlideLevel
           /\ \E j \in (CursorIndex(its) + 1)..Len(its) :
                  its[j].type = kHr

(* The two passes of C15, each written on its own: the resolver reads the   *)
(* tokens and no cursor, the locator reads the tokens, the cursor line and  *)
(* a slide level.                                                           *)

RECURSIVE ResolverFrom(_, _, _, _, _)
ResolverFrom(explicit, accepted, pending, toks, i) ==
    IF i > Len(toks)
    THEN LET inferred == IF pending > 0 THEN pending
                         ELSE IF accepted = MAX_SAFE_INTEGER THEN 0
                         ELSE accepted
         IN  IF Truthy(explicit) THEN explicit.n ELSE inferred
    ELSE LET t == toks[i]
         IN  IF ~IsMapped(t)
             THEN ResolverFrom(explicit, accepted, pending, toks, i + 1)
             ELSE CASE t.type = "front_matter" ->
                         ResolverFrom(slideLevelFromYaml(t.markup), accepted,
                                      pending, toks, i + 1)
                    [] t.type = "hr" ->
                         ResolverFrom(explicit, accepted, 0, toks, i + 1)
                    [] t.type = "heading_open" ->
                         ResolverFrom(explicit, accepted,
                                      IF getHeaderLevel(t.markup) < accepted
                                      THEN getHeaderLevel(t.markup) ELSE 0,
                                      toks, i + 1)
                    [] OTHER ->
                         ResolverFrom(explicit,
                                      IF pending > 0 THEN pending ELSE accepted,
                                      0, toks, i + 1)

ResolverLevel(toks) == ResolverFrom(Null, MAX_SAFE_INTEGER, 0, toks, 1)

\* the mapped tokens that start after the cursor line
AfterCursor(toks, line) == {i \in MappedIndexes(toks) : toks[i].map[1] > line}

\* the tokens scanned before the cursor is placed
BeforeCursor(toks, line) ==
    {i \in 1..Len(toks) : \A j \in AfterCursor(toks, line) : i < j}

LocatorOrdinal(toks, line, level) ==
    MathMax(Cardinality(
                {i \in BeforeCursor(toks, line) \cap BoundaryIndexes(toks) :
                    \/ toks[i].type \in {"front_matter", "hr"}
                    \/ getHeaderLevel(toks[i].markup) <= level}) - 1, 0)

\* C15: the single scan does what two passes do: its slide level is the
\* resolver's, which reads no cursor line, and its ordinal is the locator's
\* run with that level, every heading being classified against the final
\* level.
C15_SingleScanIsTwoPasses ==
    /\ Scanned => SlideLevel = ResolverLevel(Stream)
    /\ Done => Ordinal = LocatorOrdinal(Stream, Line, ResolverLevel(Stream))

\* a heading scanned before the level settled lies before the cursor and
\* is deeper than the final level
C15_Witness ==
    /\ Done
    /\ Len(Stream) >= 3
    /\ IsMapped(Stream[1])
    /\ Stream[1].type = "heading_open"
    /\ getHeaderLevel(Stream[1].markup) > SlideLevel
    /\ SlideLevel >= 1
    /\ Line > Stream[Len(Stream)].map[1]
    /\ Ordinal = 0

\* the document without its tokens that carry no map
StripUnmapped(d) == Document(SelectSeq(d.tokens, IsMapped), d.lineCount)

\* C16: tokens without a map are ignored.  At every point of the scan a
\* token without a map, of whatever type, leaves every local as it is, so
\* such tokens can be inserted anywhere; and the items, the slide level
\* and the ordinal are those of the document with these tokens removed.
C16_UnmappedTokensIgnored ==
    /\ pc[1] = "scan" =>
           \A u \in UnmappedTokens
                      \cup {t \in Range(tokens[1]) : ~IsMapped(t)} :
               scanToken(Locals(1), u, Line) = Locals(1)
    /\ Scanned =>
           location[1] = revealEditorLocation(StripUnmapped(doc[1]), Line)
    /\ Done => Ordinal = revealSlideIndex(StripUnmapped(doc[1]), Line)

\* the scan has passed tokens without a map of the three types it tells
\* apart, and the call has returned
C16_Witness ==
    /\ Done
    /\ \A type \in {"front_matter", "hr", "heading_open"} :
           \E i \in 1..Len(Stream) : ~IsMapped(Stream[i]) /\ Stream[i].type = type
    /\ Len(location[1].items) = 2
    /\ SlideLevel = 2

CursorPositions(its) == {k \in 1..Len(its) : its[k].type = kCursor}

\* C17: the returned items hold exactly one cursor item.  It comes right
\* after the items of the tokens scanned before the first mapped token
\* that starts below the cursor line, and is the last item when no token
\* starts below the cursor line; so the count of revealSlideIndex always
\* stops at the cursor item and never runs off the end of the items.
C17_OneCursorItem ==
    /\ Scanned =>
           LET its == location[1].items
               before == BeforeCursor(Stream, Line) \cap BoundaryIndexes(Stream)
           IN  /\ Cardinality(CursorPositions(its)) = 1
               /\ CursorIndex(its) = Cardinality(before) + 1
               /\ AfterCursor(Stream, Line) = {} => CursorIndex(its) = Len(its)
               /\ AfterCursor(Stream, Line) # {} =>
                      Len(its) - CursorIndex(its) =
                          Cardinality(BoundaryIndexes(Stream) \ before)
    /\ pc[1] = "locate" =>
           /\ itemIndex[1] <= CursorIndex(location[1].items)
           /\ itemIndex[1] <= Len(location[1].items)

\* a call has returned from the cursor item, which stood between the items
\* of two tokens, the second of them not the first token below the cursor
C17_Witness ==
    /\ Done
    /\ Cardinality(AfterCursor(Stream, Line) \cap BoundaryIndexes(Stream)) >= 2
    /\ CursorIndex(location[1].items) = 2
    /\ Len(location[1].items) = 4

\* the level the scan has inferred from the headings, whatever the front
\* matter declares: autoSlideLevel once lines 263-271 have run
InferredLevel == autoSlideLevel[1]

\* C18: the accepted level never increases: a step that changes it sets it
\* to the pending level, which is lower, or, at the end of a scan that
\* accepted nothing, to 0; while the tokens are scanned a pending level is
\* always lower than the accepted level; and the inferred level at the
\* end, when it is not 0, is the level of a heading of the stream (being
\* the last level accepted, it is the lowest).
C18_AcceptedLevelDecreases ==
    /\ [](pc[1] = "scan" /\ pendingAutoSlideLevel[1] > 0 =>
              pendingAutoSlideLevel[1] < autoSlideLevel[1])
    /\ [][pc[1] = "scan" =>
              /\ autoSlideLevel'[1] <= autoSlideLevel[1]
              /\ autoSlideLevel'[1] # autoSlideLevel[1] =>
                     \/ /\ pendingAutoSlideLevel[1] > 0
                        /\ autoSlideLevel'[1] = pendingAutoSlideLevel[1]
                        /\ autoSlideLevel'[1] < autoSlideLevel[1]
                     \/ /\ EndsScan
                        /\ pendingAutoSlideLevel[1] = 0
                        /\ autoSlideLevel[1] = MAX_SAFE_INTEGER
                        /\ autoSlideLevel'[1] = 0]_vars
    /\ [](Scanned =>
              /\ ~Truthy(explicitSlideLevel[1]) => SlideLevel = InferredLevel
              /\ InferredLevel > 0 => InferredLevel \in HeadingLevels(Stream))

\* the scan accepted level 2 and then the lower level 1, which is the
\* inferred level
C18_Witness ==
    /\ Done
    /\ Len(Stream) = 4
    /\ \A i \in 1..4 : IsMapped(Stream[i])
    /\ Stream[1].type = "heading_open" /\ getHeaderLevel(Stream[1].markup) = 2
    /\ Stream[2].type \in OtherTypes
    /\ Stream[3].type = "heading_open" /\ getHeaderLevel(Stream[3].markup) = 1
    /\ Stream[4].type \in OtherTypes
    /\ autoSlideLevel[1] = 1
    /\ SlideLevel = 1

\* the listener has just run on a message of one of the kinds
Delivered(kinds) ==
    /\ Len(received') = Len(received) + 1
    /\ Kind(received'[Len(received')]) \in kinds

\* the message the listener has just run on, and what it posted
DeliveredMessage == received'[Len(received')]
NewPosts == SubSeq(posted', Len(posted) + 1, Len(posted'))

PostsOf(posts, message) == {i \in 1..Len(posts) : posts[i].message = message}

\* the answer to the reveal-init message e: one reveal-ready to the sender;
\* at most one reveal-slide, to the sender, only when the slides of e have
\* an element at the page's slideIndex, and before the reveal-ready
AnsweredOnce(e) ==
    LET ready == PostsOf(NewPosts, "reveal-ready")
        slide == PostsOf(NewPosts, "reveal-slide")
    IN  /\ Cardinality(ready) = 1
        /\ \A i \in ready : NewPosts[i].to = e.source
        /\ Cardinality(slide) <= 1
        /\ \A i \in slide :
               /\ e.data.t = "object"
               /\ SlideAt(e.data.slides, webview.slideIndex) # Undefined
               /\ NewPosts[i].data = SlideAt(e.data.slides, webview.slideIndex)
               /\ NewPosts[i].to = e.source
               /\ \A j \in ready : i < j

\* C19: every reveal-init message is answered with exactly one
\* reveal-ready to the sender; a reveal-slide is posted only when
\* slides[slideIndex] exists, at most once, and before the reveal-ready.
\* It fails for a reveal-init message without data, or with slides that
\* are null or undefined: the listener throws and posts nothing.
C19_EveryRevealInitAnswered ==
    [][Delivered({"reveal-init"}) => AnsweredOnce(DeliveredMessage)]_vars

RECURSIVE LatestIndex(_)
\* the slideIndex the delivered messages ask for: 0 before any setSlideIndex,
\* else the index of the last one, 0 when it is missing or falsy
LatestIndex(log) ==
    IF log = <<>>
    THEN Num(0)
    ELSE LET e == log[Len(log)]
         IN  IF Kind(e) = "setSlideIndex"
             THEN (IF e.index = Undefined \/ ~Truthy(e.index)
                   THEN Num(0) ELSE e.index)
             ELSE LatestIndex(SubSeq(log, 1, Len(log) - 1))

\* C20: the page's slideIndex is the index of the most recent setSlideIndex
\* message (0 when that index is missing or falsy, 0 when there was none);
\* a message of any other kind leaves slideIndex as it was, and the slide a
\* reveal-init is answered with is the one at that index.
C20_SlideIndexIsLatestSet ==
    /\ [](webview.slideIndex = LatestIndex(received))
    /\ [][Delivered(MessageKinds \ {"setSlideIndex"}) =>
              webview'.slideIndex = webview.slideIndex]_vars
    /\ [][Delivered({"reveal-init"}) =>
              \A i \in PostsOf(NewPosts, "reveal-slide") :
                  NewPosts[i].data =
                      SlideAt(DeliveredMessage.data.slides,
                              LatestIndex(received))]_vars

\* index 2 was set, then a setSlideIndex without an index was delivered,
\* then a message of another kind
C20_Witness ==
    /\ Len(received) = 3
    /\ Kind(received[1]) = "setSlideIndex" /\ received[1].index = Num(2)
    /\ Kind(received[2]) = "setSlideIndex" /\ received[2].index = Undefined
    /\ Kind(received[3]) = "reveal-init"
    /\ webview.slideIndex = Num(0)

====
